---- MODULE Spec2Model ----
(***************************************************************************)
(* A model of gosql (src/gosql.go): the capability-gated connection        *)
(* (DB.Open, DB.connectHook, DB.Handler) and the migration engine          *)
(* (DB.migrate) running against one sqlite database file.                  *)
(*                                                                         *)
(* Migration names are Go strings; a name is modelled as the sequence of   *)
(* its digits (<<1, 0>> is "10"), so that sort.Strings is the bytewise     *)
(* lexicographic order and not a numeric one.  The body of migration k is  *)
(* a statement that records k in a tracking relation, as in the ordering   *)
(* test of the specification.  A relation is a bag of rows: name -> count. *)
(***************************************************************************)
EXTENDS Integers, Sequences, FiniteSets, TLC

\* Bounds of the model.
MaxOpens == 2
MaxFaults == 2
MaxGateFaults == 1
MaxConns == 1

Handles == {"h1", "h2"}

\* "10" and "2": the lexicographic order differs from the numeric one.
Names == {<<1, 0>>, <<2>>}

NoKey == <<>>
NilDB == <<>>

VARIABLES
    database,    \* the sqlite file: [hasLedger, ledger, effects, modified]
    db,          \* the DB structs: [Handles -> [DB, readOnly]]
    driverIndex, \* the package variable driverIndex
    registry,    \* database/sql's driver registry: driver index -> handle whose connectHook it holds
    conns,       \* the engine connections each handle's pool has opened, [authorizer]
    openedWith,  \* history: the readOnly argument of the Open call that set db.DB
    returned,    \* history: what the last Open call on each handle returned
    nOpens,      \* history: number of Open calls made
    firstSet,    \* history: the migration set of the first Open call (a set holding it)
    sameSet,     \* history: every Open call so far supplied the same migration set
    nFaults,     \* history: number of engine steps that have failed
    last,        \* the last operation: its arguments and what it returned
    call,        \* the facade call being made: its arguments and the engine's answers
    issued,      \* the statements the facade has handed to the engine
    cursor,      \* the result cursor of the call: "none", "open" or "closed"
    target,      \* the contents of the slice the caller's result argument points to
    ret,         \* what the facade call returned: [returned, err, panicked, out]
    procs,       \* the migrate runs in flight: [pc, keys, applied, err]
    overlapped   \* history: a step of one migrate run was taken during another run

gateVars == <<database, db, driverIndex, registry, conns, openedWith, returned, nOpens,
              firstSet, sameSet, nFaults, last>>
facadeVars == <<call, issued, cursor, target, ret>>
raceVars == <<procs, overlapped>>

vars == <<gateVars, facadeVars, raceVars>>

----------------------------------------------------------------------------
\* Errors

Err(kind, key) == [kind |-> kind, key |-> key]
NoErr == Err("nil", NoKey)
AlreadyOpenErr == Err("already open", NoKey)

\* The engine steps of one migrate run that may fail, and the plan of a run:
\* the step that fails if the run reaches it (sql.Open itself does not fail:
\* it only looks the registered driver up, the file is opened by the first Exec).
NoFault == [step |-> "none", key |-> NoKey]
SetupFaults ==
    {NoFault, [step |-> "create", key |-> NoKey], [step |-> "load", key |-> NoKey]}
Faults ==
    SetupFaults \cup {[step |-> s, key |-> k] : s \in {"body", "insert"}, k \in Names}

----------------------------------------------------------------------------
\* sort.Strings

RECURSIVE Less(_, _)
Less(a, b) ==
    IF a = <<>> THEN b # <<>>
    ELSE IF b = <<>> THEN FALSE
    ELSE IF Head(a) # Head(b) THEN Head(a) < Head(b)
    ELSE Less(Tail(a), Tail(b))

RECURSIVE InsertSorted(_, _)
InsertSorted(k, s) ==
    IF s = <<>> THEN <<k>>
    ELSE IF Less(k, Head(s)) THEN <<k>> \o s
    ELSE <<Head(s)>> \o InsertSorted(k, Tail(s))

RECURSIVE SortRec(_)
SortRec(keys) ==
    IF keys = <<>> THEN <<>> ELSE InsertSorted(Head(keys), SortRec(Tail(keys)))

SortStringsSkipped(keys) == keys

SortStrings(keys) == SortRec(keys)

\* "for key := range migrations": the keys in any order.
Enumerations(S) ==
    {s \in [1..Cardinality(S) -> S] : {s[i] : i \in 1..Cardinality(S)} = S}

----------------------------------------------------------------------------
\* DB.migrate

Ev(step, key, ok) == [step |-> step, key |-> key, ok |-> ok]

\* "SELECT name FROM _migrations" into names, then applied[name] = true.
LoadAppliedNone(d) == {}

LoadApplied(d) == {n \in Names : d.ledger[n] > 0}

IsAppliedNever(applied, key) == FALSE

IsApplied(applied, key) == key \in applied

Run(d, err, pending, log) == [db |-> d, err |-> err, pending |-> pending, log |-> log]

\* The apply loop over the sorted keys.  A body is one statement: an Exec that
\* fails leaves no effect.  Each Exec commits on its own (no transaction).
RECURSIVE ApplyLoop(_, _, _, _, _, _)
ApplyLoop(d, keys, applied, pending, fault, log) ==
    IF keys = <<>> THEN Run(d, NoErr, pending, log)
    ELSE LET key == Head(keys) IN
      IF IsApplied(applied, key)
      THEN ApplyLoop(d, Tail(keys), applied, pending, fault, log)
      ELSE IF fault = [step |-> "body", key |-> key]
      THEN Run(d, Err("body", key), pending, Append(log, Ev("body", key, FALSE)))
      ELSE LET d2 == [d EXCEPT !.effects[key] = @ + 1]
               log2 == Append(log, Ev("body", key, TRUE))
           IN IF fault = [step |-> "insert", key |-> key]
              THEN Run(d2, Err("insert", key), pending, Append(log2, Ev("insert", key, FALSE)))
              ELSE ApplyLoop([d2 EXCEPT !.ledger[key] = @ + 1], Tail(keys),
                             applied, pending, fault, Append(log2, Ev("insert", key, TRUE)))

migrate(d, iter, fault) ==
    IF fault.step = "create" THEN Run(d, Err("create", NoKey), {}, <<>>)
    ELSE LET d1 == [d EXCEPT !.hasLedger = TRUE] IN
      IF fault.step = "load" THEN Run(d1, Err("load", NoKey), {}, <<>>)
      ELSE LET applied == LoadApplied(d1)
               keys == SortStrings(iter)
               pending == {iter[i] : i \in 1..Len(iter)} \ applied
           IN ApplyLoop(d1, keys, applied, pending, fault, <<>>)

----------------------------------------------------------------------------
\* The zero DB structs, driverIndex = 0 and a fresh database file.
InitDB ==
    /\ database = [hasLedger |-> FALSE,
                   ledger |-> [n \in Names |-> 0],
                   effects |-> [n \in Names |-> 0],
                   modified |-> FALSE]
    /\ db = [h \in Handles |-> [DB |-> NilDB, readOnly |-> FALSE]]
    /\ driverIndex = 0
    /\ registry = <<>>
    /\ conns = [h \in Handles |-> <<>>]
    /\ openedWith = [h \in Handles |-> "never"]
    /\ returned = [h \in Handles |-> Err("never called", NoKey)]
    /\ nOpens = 0
    /\ firstSet = {}
    /\ sameSet = TRUE
    /\ nFaults = 0
    /\ last = [op |-> "none"]

----------------------------------------------------------------------------
\* DB.Open

AlreadyOpenNever(d) == FALSE

\* "if db.DB != nil"
AlreadyOpen(d) == d.DB # NilDB

MigrateFailedIgnored(err) == FALSE

\* "if err := db.migrate(migrations); err != nil { return err }"
MigrateFailed(err) == err # NoErr

RunRec(r, iter) ==
    [err |-> r.err, pending |-> r.pending, log |-> r.log,
     shuffled |-> iter # SortRec(iter)]

\* What one call of Open does: the database it leaves, the handle's fields,
\* whether a driver was registered, the error returned and the migrate runs made.
\* iter is the order in which "range migrations" yields the keys; sort.Strings
\* erases it before it is used, and both runs of a call are given the same one.
OpenOutcome(h, readOnly, iter, f1, f2) ==
    LET r1 == migrate(database, iter, f1)
        d1 == [db[h] EXCEPT !.readOnly = readOnly]
    IN IF AlreadyOpen(d1)
       THEN [database |-> r1.db, handle |-> d1, registered |-> FALSE,
             err |-> AlreadyOpenErr, runs |-> <<RunRec(r1, iter)>>]
       ELSE LET r2 == migrate(r1.db, iter, f2) IN
         IF MigrateFailed(r2.err)
         THEN [database |-> r2.db, handle |-> d1, registered |-> FALSE,
               err |-> r2.err, runs |-> <<RunRec(r1, iter), RunRec(r2, iter)>>]
         ELSE [database |-> r2.db, handle |-> [d1 EXCEPT !.DB = <<driverIndex>>],
               registered |-> TRUE,
               err |-> NoErr, runs |-> <<RunRec(r1, iter), RunRec(r2, iter)>>]

FailedRuns(runs) == Cardinality({i \in 1..Len(runs) : runs[i].err # NoErr})

\* A planned fault is an input of the call only if the run reaches the step:
\* a plan whose step is not reached is the input "no fault".
Fired(f, runs, i) ==
    \/ f = NoFault
    \/ i <= Len(runs) /\ runs[i].err = Err(f.step, f.key)

Open(h, readOnly, iter, f1, f2) ==
    \E o \in {OpenOutcome(h, readOnly, iter, f1, f2)} :
       LET migrations == {iter[i] : i \in 1..Len(iter)} IN
       /\ nOpens < MaxOpens
       /\ Fired(f1, o.runs, 1) /\ Fired(f2, o.runs, 2)
       /\ database' = o.database
       /\ db' = [db EXCEPT ![h] = o.handle]
       /\ driverIndex' = IF o.registered THEN driverIndex + 1 ELSE driverIndex
       /\ registry' = IF o.registered THEN Append(registry, h) ELSE registry
       /\ openedWith' = IF o.registered
                        THEN [openedWith EXCEPT ![h] =
                                 IF readOnly THEN "readOnly" ELSE "writable"]
                        ELSE openedWith
       /\ nFaults' = nFaults + FailedRuns(o.runs)
       /\ returned' = [returned EXCEPT ![h] = o.err]
       /\ last' = [op |-> "Open", h |-> h, migrations |-> migrations,
                   err |-> o.err, runs |-> o.runs, before |-> returned[h]]
       /\ nOpens' = nOpens + 1
       /\ sameSet' = (sameSet /\ (nOpens = 0 \/ firstSet = {migrations}))
       /\ firstSet' = IF sameSet' THEN {migrations} ELSE {}
       /\ UNCHANGED <<conns, facadeVars, raceVars>>

\* Open called with any arguments drawn from the given sets.  The plans of the
\* two runs name steps of the supplied migrations and stay within the budget
\* of failures (every planned step fails, see Fired).
Planned(f) == IF f = NoFault THEN 0 ELSE 1

OpenCall(modes, sets, faults, budget) ==
    /\ nOpens < MaxOpens
    /\ \E h \in Handles, readOnly \in modes, migrations \in sets :
         \E f1 \in faults, f2 \in faults :
           /\ nFaults + Planned(f1) + Planned(f2) <= budget
           /\ f1.key \in migrations \cup {NoKey}
           /\ f2.key \in migrations \cup {NoKey}
           /\ \E iter \in Enumerations(migrations) : Open(h, readOnly, iter, f1, f2)

----------------------------------------------------------------------------
\* DB.connectHook and the authorizer it registers

Action(op, arg1, arg2) == [op |-> op, arg1 |-> arg1, arg2 |-> arg2]

\* The authorizer actions sqlite asks about when it compiles a statement
\* (sqlite3_set_authorizer: the action code, then its arguments; for
\* SQLITE_PRAGMA the pragma's name and its argument, "" when it has none),
\* and whether running the statement changes the database.
Statements ==
    { [sql |-> "SELECT 1", writes |-> FALSE,
       actions |-> <<Action("SQLITE_SELECT", "", "")>>],
      [sql |-> "SELECT name FROM _migrations", writes |-> FALSE,
       actions |-> <<Action("SQLITE_SELECT", "", ""),
                     Action("SQLITE_READ", "_migrations", "name")>>],
      [sql |-> "SELECT upper(name) FROM _migrations", writes |-> FALSE,
       actions |-> <<Action("SQLITE_SELECT", "", ""),
                     Action("SQLITE_FUNCTION", "", "upper"),
                     Action("SQLITE_READ", "_migrations", "name")>>],
      [sql |-> "CREATE TABLE t(x)", writes |-> TRUE,
       actions |-> <<Action("SQLITE_INSERT", "sqlite_master", ""),
                     Action("SQLITE_CREATE_TABLE", "t", ""),
                     Action("SQLITE_UPDATE", "sqlite_master", "type"),
                     Action("SQLITE_READ", "sqlite_master", "ROWID")>>],
      [sql |-> "DROP TABLE _migrations", writes |-> TRUE,
       actions |-> <<Action("SQLITE_DELETE", "sqlite_master", ""),
                     Action("SQLITE_DROP_TABLE", "_migrations", "")>>],
      [sql |-> "INSERT INTO _migrations (name) VALUES ('x')", writes |-> TRUE,
       actions |-> <<Action("SQLITE_INSERT", "_migrations", "")>>],
      [sql |-> "UPDATE _migrations SET name = 'x'", writes |-> TRUE,
       actions |-> <<Action("SQLITE_UPDATE", "_migrations", "name")>>],
      [sql |-> "DELETE FROM _migrations", writes |-> TRUE,
       actions |-> <<Action("SQLITE_DELETE", "_migrations", "")>>],
      [sql |-> "ATTACH DATABASE 'other.db' AS x", writes |-> TRUE,
       actions |-> <<Action("SQLITE_ATTACH", "other.db", "")>>],
      [sql |-> "PRAGMA journal_mode=WAL", writes |-> TRUE,
       actions |-> <<Action("SQLITE_PRAGMA", "journal_mode", "WAL")>>],
      [sql |-> "PRAGMA table_info(_migrations)", writes |-> FALSE,
       actions |-> <<Action("SQLITE_PRAGMA", "table_info", "_migrations")>>],
      [sql |-> "PRAGMA data_version", writes |-> FALSE,
       actions |-> <<Action("SQLITE_PRAGMA", "data_version", "")>>],
      [sql |-> "PRAGMA user_version", writes |-> FALSE,
       actions |-> <<Action("SQLITE_PRAGMA", "user_version", "")>>],
      [sql |-> "PRAGMA user_version=1", writes |-> TRUE,
       actions |-> <<Action("SQLITE_PRAGMA", "user_version", "1")>>] }

AuthorizerAllowPragma(op, arg1, arg2) ==
    IF op \in {"SQLITE_SELECT", "SQLITE_READ", "SQLITE_FUNCTION", "SQLITE_PRAGMA"}
    THEN "SQLITE_OK"
    ELSE "SQLITE_DENY"

\* The callback given to RegisterAuthorizer.
Authorizer(op, arg1, arg2) ==
    IF op \in {"SQLITE_SELECT", "SQLITE_READ", "SQLITE_FUNCTION"} THEN "SQLITE_OK"
    ELSE IF op = "SQLITE_PRAGMA" /\ arg1 = "table_info" THEN "SQLITE_OK"
    ELSE "SQLITE_DENY"

\* The connection connectHook leaves: with the authorizer iff db.readOnly
\* (db.Funcs, registered first, is left empty here).
connectHook(d) == [authorizer |-> d.readOnly]

\* The pool of handle h opens an engine connection (database/sql does so
\* lazily, on first use); the driver calls the ConnectHook registered for it.
Connect(h) ==
    /\ db[h].DB # NilDB
    /\ Len(conns[h]) < MaxConns
    /\ LET owner == registry[db[h].DB[1] + 1] IN
         conns' = [conns EXCEPT ![h] = Append(@, connectHook(db[owner]))]
    /\ last' = [op |-> "Connect", h |-> h]
    /\ UNCHANGED <<database, db, driverIndex, registry, openedWith, returned, nOpens,
                   firstSet, sameSet, nFaults,
                 facadeVars, raceVars>>

\* What the engine answers for each action of a statement on connection c.
Verdicts(c, actions) ==
    [j \in 1..Len(actions) |->
        IF c.authorizer
        THEN Authorizer(actions[j].op, actions[j].arg1, actions[j].arg2)
        ELSE "SQLITE_OK"]

\* A statement run on connection i of handle h: refused as soon as the
\* authorizer denies one of its actions.
Statement(h, i, stmt) ==
    /\ i \in 1..Len(conns[h])
    /\ LET v == Verdicts(conns[h][i], stmt.actions)
           ok == \A j \in 1..Len(v) : v[j] = "SQLITE_OK"
       IN /\ last' = [op |-> "Statement", h |-> h, conn |-> i,
                      authorizer |-> conns[h][i].authorizer, sql |-> stmt.sql,
                      writes |-> stmt.writes,
                      actions |-> stmt.actions, verdicts |-> v,
                      result |-> IF ok THEN "ok" ELSE "not authorized"]
          /\ database' = IF ok /\ stmt.writes
                         THEN [database EXCEPT !.modified = TRUE]
                         ELSE database
    /\ UNCHANGED <<db, driverIndex, registry, conns, openedWith, returned, nOpens,
                   firstSet, sameSet, nFaults,
                 facadeVars, raceVars>>

----------------------------------------------------------------------------
\* DB.Handler

\* "if !db.readOnly { panic(...) }"
MayServe(d) == d.readOnly

Handler(h) ==
    /\ last' = [op |-> "Handler", h |-> h,
                result |-> IF MayServe(db[h]) THEN "handler" ELSE "panic"]
    /\ UNCHANGED <<database, db, driverIndex, registry, conns, openedWith, returned, nOpens,
                   firstSet, sameSet, nFaults,
                 facadeVars, raceVars>>

----------------------------------------------------------------------------
\* Go values and encoding/json
\*
\* A Go string is the sequence of its characters.  A dynamically typed Go
\* value is [k, s, ks, xs]: its kind, its characters or digits, the keys of a
\* map (sorted, unique) and the elements of a slice or the values of a map.

QUOTE == "\""
BACKSLASH == "\\"
Digits == {"1"}
NullLiteral == <<"n", "u", "l", "l">>

Val(k, s, ks, xs) == [k |-> k, s |-> s, ks |-> ks, xs |-> xs]
Nil == Val("nil", <<>>, <<>>, <<>>)
Int64(ds) == Val("int64", ds, <<>>, <<>>)
Float64(ds) == Val("float64", ds, <<>>, <<>>)
Str(s) == Val("string", s, <<>>, <<>>)
Arr(xs) == Val("slice", <<>>, <<>>, xs)
Obj(ks, xs) == Val("map", <<>>, ks, xs)

\* The byte of a character (Go compares strings bytewise).
Code(c) ==
    CASE c = QUOTE -> 34 [] c = "," -> 44 [] c = "1" -> 49 [] c = ":" -> 58
      [] c = "[" -> 91 [] c = BACKSLASH -> 92 [] c = "]" -> 93 [] c = "a" -> 97
      [] c = "b" -> 98 [] c = "c" -> 99 [] c = "k" -> 107 [] c = "l" -> 108 [] c = "n" -> 110
      [] c = "u" -> 117 [] c = "{" -> 123 [] c = "}" -> 125

Codes(s) == [i \in 1..Len(s) |-> Code(s[i])]

\* m[k] = v on a map held as sorted keys and their values.
RECURSIVE MapSet(_, _, _, _)
MapSet(ks, xs, k, v) ==
    IF ks = <<>> THEN [ks |-> <<k>>, xs |-> <<v>>]
    ELSE IF Head(ks) = k THEN [ks |-> ks, xs |-> <<v>> \o Tail(xs)]
    ELSE IF Less(Codes(k), Codes(Head(ks))) THEN [ks |-> <<k>> \o ks, xs |-> <<v>> \o xs]
    ELSE LET r == MapSet(Tail(ks), Tail(xs), k, v)
         IN [ks |-> <<Head(ks)>> \o r.ks, xs |-> <<Head(xs)>> \o r.xs]

\* The string literal of s: quoted, with quote and backslash escaped.
RECURSIVE Escape(_)
Escape(s) ==
    IF s = <<>> THEN <<>>
    ELSE IF Head(s) \in {QUOTE, BACKSLASH} THEN <<BACKSLASH, Head(s)>> \o Escape(Tail(s))
    ELSE <<Head(s)>> \o Escape(Tail(s))

Quote(s) == <<QUOTE>> \o Escape(s) \o <<QUOTE>>

RECURSIVE Join(_, _)
Join(parts, sep) ==
    IF parts = <<>> THEN <<>>
    ELSE IF Len(parts) = 1 THEN parts[1]
    ELSE parts[1] \o sep \o Join(Tail(parts), sep)

\* json.Marshal of a value (no value of the model makes it fail).
RECURSIVE Marshal(_)
Marshal(v) ==
    CASE v.k = "nil" -> NullLiteral
      [] v.k \in {"int64", "float64"} -> v.s
      [] v.k = "string" -> Quote(v.s)
      [] v.k = "slice" ->
           <<"[">> \o Join([i \in 1..Len(v.xs) |-> Marshal(v.xs[i])], <<",">>) \o <<"]">>
      [] v.k = "map" ->
           <<"{">> \o Join([i \in 1..Len(v.xs) |->
                              Quote(v.ks[i]) \o <<":">> \o Marshal(v.xs[i])], <<",">>)
                   \o <<"}">>

\* The decoder: what is parsed from the front of s, and what is left of s.
Parsed(v, rest) == [ok |-> TRUE, v |-> v, rest |-> rest]
SyntaxError == [ok |-> FALSE, v |-> Nil, rest |-> <<>>]

\* After the opening quote: the characters up to the closing one.
RECURSIVE ParseString(_, _)
ParseString(s, acc) ==
    IF s = <<>> THEN SyntaxError
    ELSE IF Head(s) = QUOTE THEN Parsed(Str(acc), Tail(s))
    ELSE IF Head(s) = BACKSLASH
    THEN IF Len(s) >= 2 /\ s[2] \in {QUOTE, BACKSLASH}
         THEN ParseString(Tail(Tail(s)), Append(acc, s[2]))
         ELSE SyntaxError
    ELSE ParseString(Tail(s), Append(acc, Head(s)))

RECURSIVE DigitsPrefix(_)
DigitsPrefix(s) ==
    IF s # <<>> /\ Head(s) \in Digits THEN 1 + DigitsPrefix(Tail(s)) ELSE 0

RECURSIVE ParseValue(_)
RECURSIVE ParseElems(_, _)
RECURSIVE ParseMembers(_, _, _)

ParseValue(s) ==
    IF s = <<>> THEN SyntaxError
    ELSE IF Head(s) = QUOTE THEN ParseString(Tail(s), <<>>)
    ELSE IF Head(s) \in Digits
    THEN LET n == DigitsPrefix(s)
         IN Parsed(Float64(SubSeq(s, 1, n)), SubSeq(s, n + 1, Len(s)))
    ELSE IF Len(s) >= 4 /\ SubSeq(s, 1, 4) = NullLiteral
    THEN Parsed(Nil, SubSeq(s, 5, Len(s)))
    ELSE IF Head(s) = "["
    THEN IF Len(s) >= 2 /\ s[2] = "]" THEN Parsed(Arr(<<>>), SubSeq(s, 3, Len(s)))
         ELSE ParseElems(Tail(s), <<>>)
    ELSE IF Head(s) = "{"
    THEN IF Len(s) >= 2 /\ s[2] = "}" THEN Parsed(Obj(<<>>, <<>>), SubSeq(s, 3, Len(s)))
         ELSE ParseMembers(Tail(s), <<>>, <<>>)
    ELSE SyntaxError

ParseElems(s, acc) ==
    LET r == ParseValue(s) IN
    IF ~r.ok \/ r.rest = <<>> THEN SyntaxError
    ELSE IF Head(r.rest) = "," THEN ParseElems(Tail(r.rest), Append(acc, r.v))
    ELSE IF Head(r.rest) = "]" THEN Parsed(Arr(Append(acc, r.v)), Tail(r.rest))
    ELSE SyntaxError

ParseMembers(s, ks, xs) ==
    IF s = <<>> \/ Head(s) # QUOTE THEN SyntaxError
    ELSE LET k == ParseString(Tail(s), <<>>) IN
      IF ~k.ok \/ k.rest = <<>> \/ Head(k.rest) # ":" THEN SyntaxError
      ELSE LET r == ParseValue(Tail(k.rest)) IN
        IF ~r.ok \/ r.rest = <<>> THEN SyntaxError
        ELSE LET m == MapSet(ks, xs, k.v.s, r.v) IN
          IF Head(r.rest) = "," THEN ParseMembers(Tail(r.rest), m.ks, m.xs)
          ELSE IF Head(r.rest) = "}" THEN Parsed(Obj(m.ks, m.xs), Tail(r.rest))
          ELSE SyntaxError

\* json.Valid: bs is one complete document.
Valid(bs) == LET r == ParseValue(bs) IN r.ok /\ r.rest = <<>>

----------------------------------------------------------------------------
\* Go errors, static types and the coercion layer (scan, convert)

\* An error is its message, a sequence of words; nil is the error that is none.
NilError == [nil |-> TRUE, msg |-> <<>>]
Error(msg) == [nil |-> FALSE, msg |-> msg]

\* fmt.Errorf("%s: %s", queryString, err)
Errorf(queryString, err) == Error(queryString \o <<": ">> \o err.msg)

\* A static type is the sequence of its kinds, outermost first:
\* <<"ptr", "slice", "map", "interface">> is *[]map[string]interface{}.
\* The type of an untyped nil is <<>>, of kind Invalid.
Kind(t) == IF t = <<>> THEN "invalid" ELSE Head(t)
Elem(t) == IF t = <<>> THEN <<>> ELSE Tail(t)

\* The record type of the model: struct { a string; b interface{} }.
FieldNames == <<<<"a">>, <<"b">>>>
FieldType(name) == IF name = <<"a">> THEN <<"string">> ELSE <<"interface">>
HasField(name) == \E i \in 1..Len(FieldNames) : FieldNames[i] = name

JSONOf(v) == Val("JSON", <<>>, <<>>, <<v>>)

\* reflect.New(t).Elem(): the zero value of a type.
Zero(t) ==
    CASE Kind(t) = "string" -> Str(<<>>)
      [] Kind(t) = "int" -> Val("int", <<"0">>, <<>>, <<>>)
      [] Kind(t) = "JSON" -> JSONOf(Nil)
      [] Kind(t) = "struct" ->
           Val("struct", <<>>, FieldNames,
               [i \in 1..Len(FieldNames) |->
                  IF FieldType(FieldNames[i]) = <<"string">> THEN Str(<<>>) ELSE Nil])
      [] OTHER -> Nil

\* json.Unmarshal(bs, dst) for a destination of type t holding cur: the error
\* and what the destination holds afterwards.  null leaves a typed
\* destination as it is; JSON.UnmarshalJSON decodes into its Value.
Decode(r, t, cur) ==
    IF ~(r.ok /\ r.rest = <<>>) THEN [err |-> Error(<<"invalid character">>), v |-> cur]
    ELSE
      CASE Kind(t) = "interface" -> [err |-> NilError, v |-> r.v]
        [] Kind(t) = "JSON" -> [err |-> NilError, v |-> JSONOf(r.v)]
        [] Kind(t) = "string" ->
             IF r.v.k = "nil" THEN [err |-> NilError, v |-> cur]
             ELSE IF r.v.k = "string" THEN [err |-> NilError, v |-> Str(r.v.s)]
             ELSE [err |-> Error(<<"json: cannot unmarshal into Go value of type string">>),
                   v |-> cur]
        [] Kind(t) = "int" ->
             IF r.v.k = "nil" THEN [err |-> NilError, v |-> cur]
             ELSE IF r.v.k = "float64"
             THEN [err |-> NilError, v |-> Val("int", r.v.s, <<>>, <<>>)]
             ELSE [err |-> Error(<<"json: cannot unmarshal into Go value of type int">>),
                   v |-> cur]
        [] OTHER -> [err |-> Error(<<"json: Unmarshal(non-pointer)">>), v |-> cur]

Unmarshal(bs, t, cur) == Decode(ParseValue(bs), t, cur)

\* convert of part_000: a quoted document is unquoted before it is decoded.
Unquoted(src, bs, t) ==
    IF /\ Kind(t) = "interface" /\ src.k = "string" /\ Len(bs) >= 4
       /\ \/ bs[2] = "{" /\ bs[Len(bs) - 1] = "}"
          \/ bs[2] = "[" /\ bs[Len(bs) - 1] = "]"
    THEN src.s ELSE bs

convertUnquoting(src, t, cur) == Unmarshal(Unquoted(src, Marshal(src), t), t, cur)

\* convert: json.Marshal(src), then json.Unmarshal into the destination.
convert(src, t, cur) == Unmarshal(Marshal(src), t, cur)

\* The conversions of scan, destination by destination, up to the first error.
\* dsts[i] is the variable the i-th destination points to (two destinations
\* may point to the same one), store what the variables hold.
RECURSIVE ConvertAll(_, _, _, _, _)
Stored(store, d, v) == [j \in 1..Len(store) |-> IF j = d THEN v ELSE store[j]]

Converted(tmp, types, dsts, store, i, r) ==
    IF ~r.err.nil THEN [err |-> r.err, store |-> Stored(store, dsts[i], r.v)]
    ELSE ConvertAll(tmp, types, dsts, Stored(store, dsts[i], r.v), i + 1)

ConvertAll(tmp, types, dsts, store, i) ==
    IF i > Len(dsts) THEN [err |-> NilError, store |-> store]
    ELSE Converted(tmp, types, dsts, store, i,
                   convert(tmp[i], types[dsts[i]], store[dsts[i]]))

ScanError == Error(<<"sql: expected other number of destination arguments in Scan">>)

\* scan: rows.Scan into one untyped slot per destination (it fails when the
\* row has another number of columns), then convert slot by slot.
scan(row, types, dsts, store) ==
    IF Len(row) # Len(dsts) THEN [err |-> ScanError, store |-> store]
    ELSE ConvertAll(row, types, dsts, store, 1)

----------------------------------------------------------------------------
\* The materializer (unmarshal, unmarshalStruct, unmarshalMap)
\*
\* A result set is [columns, rows, err]: the column names, the rows the cursor
\* yields before rows.Next returns false, and the error rows.Err then reports.

\* reflect.Append
AppendReplacing(xs, x) == <<x>>

AppendTo(xs, x) == Append(xs, x)

\* x.SetMapIndex(column, value) for the columns from i on.
SetMapIndexFirstWins(m, column, v) ==
    IF \E j \in 1..Len(m.ks) : m.ks[j] = column THEN m ELSE MapSet(m.ks, m.xs, column, v)

SetMapIndex(m, column, v) == MapSet(m.ks, m.xs, column, v)

RECURSIVE MakeMap(_, _, _, _)
MakeMap(columns, store, m, i) ==
    IF i > Len(columns) THEN Obj(m.ks, m.xs)
    ELSE MakeMap(columns, store, SetMapIndex(m, columns[i], store[i]), i + 1)

\* The row loop of unmarshalMap; the destinations are made once, before it.
RECURSIVE MapRows(_, _, _, _, _)
MapRow(rows, columns, types, xs, r) ==
    IF ~r.err.nil THEN [err |-> r.err, xs |-> xs]
    ELSE MapRows(Tail(rows), columns, types, r.store,
                 AppendTo(xs, MakeMap(columns, r.store, [ks |-> <<>>, xs |-> <<>>], 1)))

MapRows(rows, columns, types, store, xs) ==
    IF rows = <<>> THEN [err |-> NilError, xs |-> xs]
    ELSE MapRow(rows, columns, types, xs,
                scan(Head(rows), types, [i \in 1..Len(columns) |-> i], store))

unmarshalMap(rs, xs, t) ==
    LET n == Len(rs.columns)
    IN MapRows(rs.rows, rs.columns, [i \in 1..n |-> Elem(t)],
               [i \in 1..n |-> Zero(Elem(t))], xs)

FieldIndex(name) == CHOOSE i \in 1..Len(FieldNames) : FieldNames[i] = name

\* The row loop of unmarshalStruct: a fresh record for every row, the
\* destination of a column is the field of its name, or a discarded slot.
RECURSIVE StructRows(_, _, _, _)
StructRow(rows, columns, isPtr, xs, x, r) ==
    IF ~r.err.nil THEN [err |-> r.err, xs |-> xs]
    ELSE StructRows(Tail(rows), columns, isPtr,
                    AppendTo(xs, IF isPtr THEN Val("ptr", <<>>, <<>>, <<x>>) ELSE x))

Fields(x, store) == [x EXCEPT !.xs = SubSeq(store, 1, Len(FieldNames))]

StructScan(row, columns, x) ==
    scan(row,
         [j \in 1..(Len(FieldNames) + Len(columns)) |->
            IF j <= Len(FieldNames) THEN FieldType(FieldNames[j]) ELSE <<"interface">>],
         [i \in 1..Len(columns) |->
            IF HasField(columns[i]) THEN FieldIndex(columns[i]) ELSE Len(FieldNames) + i],
         [j \in 1..(Len(FieldNames) + Len(columns)) |->
            IF j <= Len(FieldNames) THEN x.xs[j] ELSE Nil])

StructRowScanned(rows, columns, isPtr, xs, x, r) ==
    StructRow(rows, columns, isPtr, xs, Fields(x, r.store), r)

StructRows(rows, columns, isPtr, xs) ==
    IF rows = <<>> THEN [err |-> NilError, xs |-> xs]
    ELSE StructRowScanned(rows, columns, isPtr, xs, Zero(<<"struct">>),
                          StructScan(Head(rows), columns, Zero(<<"struct">>)))

unmarshalStruct(rs, xs, isPtr) == StructRows(rs.rows, rs.columns, isPtr, xs)

\* The default case of unmarshal: one new(t) and one destination per row.
RECURSIVE ScalarRows(_, _, _)
ScalarRow(rows, t, xs, r) ==
    IF ~r.err.nil THEN [err |-> r.err, xs |-> xs]
    ELSE ScalarRows(Tail(rows), t, AppendTo(xs, r.store[1]))

ScalarRows(rows, t, xs) ==
    IF rows = <<>> THEN [err |-> NilError, xs |-> xs]
    ELSE ScalarRow(rows, t, xs, scan(Head(rows), <<t>>, <<1>>, <<Zero(t)>>))

\* unmarshal(rows, xs) for a slice xs of type t.
unmarshal(rs, xs, t) ==
    CASE Kind(Elem(t)) = "ptr" -> unmarshalStruct(rs, xs, TRUE)
      [] Kind(Elem(t)) = "struct" -> unmarshalStruct(rs, xs, FALSE)
      [] Kind(Elem(t)) = "interface" -> unmarshalMap(rs, xs, <<"map", "interface">>)
      [] Kind(Elem(t)) = "map" -> unmarshalMap(rs, xs, Elem(t))
      [] OTHER -> ScalarRows(rs.rows, Elem(t), xs)

----------------------------------------------------------------------------
\* The facade: Query, Exec, Insert, printQuery and JSON.MarshalJSON
\*
\* A call is [op, sql, type, prior, reject, rs, w, v, ignore]: the operation,
\* the statement, the static type of the result argument and the contents of
\* the slice it points to, whether the engine rejects the statement, the result
\* set the engine answers with, the row at which the writer fails (0: never)
\* and the value given to Insert or held by a JSON.

\* What sqlite reports for a statement it rejects: not the statement.
EngineError == Error(<<"no such table">>)

ShapeError == Error(<<"cannot unmarshal query results into">>)

NoRows == [columns |-> <<>>, rows |-> <<>>, err |-> NilError]
NoValue == [t |-> <<>>, ks |-> <<>>, xs |-> <<>>]
NoCall ==
    [op |-> "none", sql |-> <<>>, type |-> <<>>, prior |-> <<>>, reject |-> FALSE,
     rs |-> NoRows, w |-> 0, v |-> NoValue, ignore |-> FALSE]

Outcome(err, stmts, cur, tgt) ==
    [err |-> err, issued |-> stmts, cursor |-> cur, target |-> tgt,
     panicked |-> FALSE, out |-> <<>>]

ShapeOKAlways(t) == TRUE

\* "xs.Kind() != reflect.Ptr || xs.Type().Elem().Kind() != reflect.Slice"
ShapeOK(t) == Kind(t) = "ptr" /\ Kind(Elem(t)) = "slice"

\* query: the shape check, c.Query, "defer rows.Close()", unmarshal, rows.Err().
Unmarshalled(c, r) ==
    Outcome(IF ~r.err.nil THEN r.err ELSE c.rs.err, <<c.sql>>, "closed", r.xs)

query(c) ==
    IF ~ShapeOK(c.type) THEN Outcome(ShapeError, <<>>, "none", c.prior)
    ELSE IF c.reject THEN Outcome(EngineError, <<c.sql>>, "none", c.prior)
    ELSE Unmarshalled(c, unmarshal(c.rs, c.prior, Elem(c.type)))

Wrapped(queryString, o) ==
    IF ~o.err.nil THEN [o EXCEPT !.err = Errorf(queryString, o.err)] ELSE o

Query(c) == Wrapped(c.sql, query(c))

Exec(c) ==
    Outcome(IF c.reject THEN Errorf(c.sql, EngineError) ELSE NilError,
            <<c.sql>>, "none", c.prior)

\* The map loop of Insert over the entries in iteration order.  m.Value().Elem()
\* panics unless the map's values are interfaces (or pointers); the Elem of a
\* nil interface is the zero Value, of kind Invalid, and its Interface() panics.
RECURSIVE InsertEntries(_, _, _)
InsertEntries(v, i, vs) ==
    IF i > Len(v.ks) THEN [panicked |-> FALSE, vs |-> vs]
    ELSE IF Kind(Elem(v.t)) # "interface" \/ v.xs[i].k = "nil"
    THEN [panicked |-> TRUE, vs |-> vs]
    ELSE IF v.xs[i].k \in {"map", "struct", "slice"}
    THEN InsertEntries(v, i + 1, Append(vs, Str(Marshal(v.xs[i]))))
    ELSE InsertEntries(v, i + 1, Append(vs, v.xs[i]))

InsertStatement(table, ks, ignore) ==
    <<"INSERT">> \o (IF ignore THEN <<"OR IGNORE">> ELSE <<>>) \o <<"INTO", table, "(">>
    \o Join(ks, <<", ">>) \o <<")", "VALUES", "(">>
    \o Join([i \in 1..Len(ks) |-> <<"?">>], <<", ">>) \o <<")">>

TypeError == Error(<<"unhandled type">>)

Insert(c) ==
    IF Kind(c.v.t) = "map"
    THEN LET r == InsertEntries(c.v, 1, <<>>) IN
      IF r.panicked
      THEN [Outcome(NilError, <<>>, "none", c.prior) EXCEPT !.panicked = TRUE]
      ELSE Outcome(IF c.reject THEN EngineError ELSE NilError,
                   <<InsertStatement(c.sql[1], c.v.ks, c.ignore)>>, "none", c.prior)
    ELSE Outcome(TypeError, <<>>, "none", c.prior)

WriteError == Error(<<"write: broken pipe">>)

\* printQuery: db.Query, then for every row Scan into untyped slots (which
\* takes any value) and j.Encode(m) to w.  It does not call rows.Close: the
\* cursor is closed by the rows.Next that returns false, and by nothing else.
printQuery(c) ==
    IF c.reject THEN Outcome(EngineError, <<c.sql>>, "none", c.prior)
    ELSE IF c.w \in 1..Len(c.rs.rows)
    THEN [Outcome(WriteError, <<c.sql>>, "open", c.prior) EXCEPT !.out = <<c.w - 1>>]
    ELSE [Outcome(c.rs.err, <<c.sql>>, "closed", c.prior) EXCEPT !.out = <<Len(c.rs.rows)>>]

isJSONObjectString(s) == Len(s) >= 2 /\ s[1] = "{" /\ s[Len(s)] = "}"

isJSONArrayString(s) == Len(s) >= 2 /\ s[1] = "[" /\ s[Len(s)] = "]"

Encoded(bs) == [err |-> NilError, bs |-> bs]

\* "if err := json.Unmarshal([]byte(s), &xs); err != nil { break }" and the
\* "return json.Marshal(j.Value)" the break leads to.
UnmarshalJSONFailed(v) == Encoded(Marshal(v))

\* JSON.MarshalJSON for a JSON holding v.  The elements of the []JSON and the
\* values of the map[string]JSON a string is decoded into are JSONs again.
RECURSIVE MarshalJSON(_)
MarshalJSON(v) ==
    IF v.k = "string" /\ isJSONArrayString(v.s)
    THEN IF ~Valid(v.s) THEN UnmarshalJSONFailed(v)
         ELSE LET xs == ParseValue(v.s).v.xs
              IN Encoded(<<"[">> \o Join([i \in 1..Len(xs) |-> MarshalJSON(xs[i]).bs], <<",">>)
                         \o <<"]">>)
    ELSE IF v.k = "string" /\ isJSONObjectString(v.s)
    THEN IF ~Valid(v.s) THEN UnmarshalJSONFailed(v)
         ELSE LET m == ParseValue(v.s).v
              IN Encoded(<<"{">> \o Join([i \in 1..Len(m.xs) |->
                                           Quote(m.ks[i]) \o <<":">> \o MarshalJSON(m.xs[i]).bs],
                                        <<",">>)
                         \o <<"}">>)
    ELSE Encoded(Marshal(v))

----------------------------------------------------------------------------
\* The calls made on the facade

MaxCols == 2
MaxRows == 2
MaxTextLen == 3

SeqsUpTo(S, n) == UNION {[1..k -> S] : k \in 0..n}

SQLTexts == {<<"SELECT", "a", "FROM", "t">>, <<"DELETE", "FROM", "t">>}
ColumnNames == {<<"a">>, <<"b">>, <<"c">>}

\* What the driver hands to rows.Scan for NULL, an INTEGER and a TEXT.
Cells == <<Nil, Int64(<<"1">>), Str(<<"a">>)>>

\* The row of a seed: neighbouring columns hold different values.
RowOf(seed, n) == [j \in 1..n |-> Cells[((seed + j) % Len(Cells)) + 1]]

IterError == Error(<<"interrupted">>)

ResultSets ==
    {[columns |-> cs, rows |-> [i \in 1..Len(seeds) |-> RowOf(seeds[i], Len(cs))], err |-> e] :
       cs \in SeqsUpTo(ColumnNames, MaxCols) \ {<<>>},
       seeds \in SeqsUpTo(1..Len(Cells), MaxRows),
       e \in {NilError, IterError}}

\* The static types of the result arguments: nil, a bare record, a slice that
\* is not pointed to, a pointer to a record, and pointers to slices.
SliceTypes ==
    {<<"ptr", "slice", "struct">>, <<"ptr", "slice", "ptr", "struct">>,
     <<"ptr", "slice", "map", "interface">>, <<"ptr", "slice", "map", "string">>,
     <<"ptr", "slice", "interface">>, <<"ptr", "slice", "string">>,
     <<"ptr", "slice", "int">>}
ResultTypes ==
    SliceTypes \cup {<<>>, <<"struct">>, <<"slice", "struct">>, <<"ptr", "struct">>}

\* An element a slice of type t may hold before the call.
PriorElem(t) ==
    CASE Kind(t) = "ptr" -> Val("ptr", <<>>, <<>>, <<Zero(<<"struct">>)>>)
      [] Kind(t) \in {"map", "interface"} -> Obj(<<<<"a">>>>, <<Str(<<"a">>)>>)
      [] OTHER -> Zero(t)

Priors(t) ==
    IF Kind(t) = "ptr" /\ Kind(Elem(t)) = "slice" THEN {<<>>, <<PriorElem(Elem(Elem(t)))>>}
    ELSE IF Kind(t) = "slice" THEN {<<>>, <<PriorElem(Elem(t))>>}
    ELSE {<<>>}

\* The values given to Insert: maps (keys in iteration order), a record, and
\* values that are neither.
InsertValues ==
    {[t |-> <<"map", "interface">>, ks |-> <<<<"a">>>>, xs |-> <<Int64(<<"1">>)>>],
     [t |-> <<"map", "interface">>, ks |-> <<<<"a">>, <<"b">>>>, xs |-> <<Int64(<<"1">>), Str(<<"a">>)>>],
     [t |-> <<"map", "interface">>, ks |-> <<<<"b">>, <<"a">>>>, xs |-> <<Str(<<"a">>), Int64(<<"1">>)>>],
     [t |-> <<"map", "interface">>, ks |-> <<<<"a">>>>, xs |-> <<Arr(<<Float64(<<"1">>)>>)>>],
     [t |-> <<"map", "interface">>, ks |-> <<<<"a">>>>, xs |-> <<Nil>>],
     [t |-> <<"map", "string">>, ks |-> <<<<"a">>>>, xs |-> <<Str(<<"a">>)>>],
     [t |-> <<"struct">>, ks |-> FieldNames, xs |-> <<Str(<<"a">>), Int64(<<"1">>)>>],
     [t |-> <<"int">>, ks |-> <<>>, xs |-> <<>>],
     [t |-> <<"slice", "int">>, ks |-> <<>>, xs |-> <<>>],
     NoValue}

SelectText == <<"SELECT", "a", "FROM", "t">>

\* A rejected statement has no result set.
FacadeCalls ==
    UNION {{[NoCall EXCEPT !.op = "Query", !.sql = SelectText, !.type = t, !.prior = p,
                           !.rs = rs] : p \in Priors(t), rs \in ResultSets} :
             t \in ResultTypes}
    \cup {[NoCall EXCEPT !.op = "Query", !.sql = q, !.type = t, !.reject = TRUE] :
            q \in SQLTexts, t \in ResultTypes}
    \cup {[NoCall EXCEPT !.op = "Exec", !.sql = q, !.reject = r] :
            q \in SQLTexts, r \in BOOLEAN}
    \cup {[NoCall EXCEPT !.op = "Insert", !.sql = <<"t">>, !.v = v, !.ignore = i,
                         !.reject = r] :
            v \in InsertValues, i \in BOOLEAN, r \in BOOLEAN}
    \cup {[NoCall EXCEPT !.op = "printQuery", !.sql = q, !.reject = TRUE] : q \in SQLTexts}
    \cup UNION {{[NoCall EXCEPT !.op = "printQuery", !.sql = SelectText, !.rs = rs, !.w = w] :
                   w \in 0..Len(rs.rows)} : rs \in ResultSets}

\* The texts of the JSON calls: every string over the alphabet up to a
\* length, and longer documents and strings that only look like documents.
TextAlphabet == {"[", "]", "{", "}", "1", ",", QUOTE}

SampleTexts ==
    {<<"{", QUOTE, "k", QUOTE, ":", "1", "}">>,
     <<"{", QUOTE, "k", QUOTE, ":", "1">>,
     <<"{", "k", ":", "1", "}">>,
     <<"[", QUOTE, "[", "1", "]", QUOTE, "]">>,
     <<"[", QUOTE, "[", "1", QUOTE, "]">>,
     <<"[", "1", "]", "[", "1", "]">>,
     <<"{", QUOTE, "k", QUOTE, ":", "[", "1", ",", "1", "]", "}">>}

Texts == (SeqsUpTo(TextAlphabet, MaxTextLen) \ {<<>>}) \cup SampleTexts

\* The targets with an interface-valued slot: []interface{}, the values of
\* a map[string]interface{}, field b of the record, and the Value of a JSON.
DynamicTypes ==
    {<<"ptr", "slice", "interface">>, <<"ptr", "slice", "map", "interface">>,
     <<"ptr", "slice", "struct">>, <<"ptr", "slice", "map", "JSON">>}

TextRows(s) == [columns |-> <<<<"b">>>>, rows |-> <<<<Str(s)>>>>, err |-> NilError]

JSONCalls ==
    {[NoCall EXCEPT !.op = "Query", !.sql = SelectText, !.type = t, !.rs = TextRows(s)] :
       t \in DynamicTypes, s \in Texts}
    \cup {[NoCall EXCEPT !.op = "MarshalJSON", !.v = [t |-> <<"JSON">>, ks |-> <<>>,
                                                    xs |-> <<Str(s)>>]] : s \in Texts}

----------------------------------------------------------------------------
\* One call of the facade, from its arguments to its return

Idle == [returned |-> FALSE, err |-> NilError, panicked |-> FALSE, out |-> <<>>]

Return(o) ==
    /\ ~ret.returned
    /\ issued' = issued \o o.issued
    /\ cursor' = o.cursor
    /\ target' = o.target
    /\ ret' = [returned |-> TRUE, err |-> o.err, panicked |-> o.panicked, out |-> o.out]
    /\ UNCHANGED <<call, gateVars, raceVars>>

QueryCall == call.op = "Query" /\ Return(Query(call))

ExecCall == call.op = "Exec" /\ Return(Exec(call))

InsertCall == call.op = "Insert" /\ Return(Insert(call))

PrintQueryCall == call.op = "printQuery" /\ Return(printQuery(call))

MarshalJSONCall ==
    /\ call.op = "MarshalJSON"
    /\ LET r == MarshalJSON(call.v.xs[1])
       IN Return([Outcome(r.err, <<>>, "none", call.prior) EXCEPT !.out = r.bs])

----------------------------------------------------------------------------
\* Two migrate runs against the same database, statement by statement
\*
\* Every Exec and the Query of migrate is one statement that the engine runs
\* and commits on its own; between two statements of one run the engine may
\* run statements of the other.  A run is [pc, keys, applied, err]: where it
\* stands, the sorted keys it has not passed yet, the applied set it loaded
\* and the error it returned.

Runs == {1, 2}

IdleRun == [pc |-> "idle", keys |-> <<>>, applied |-> {}, err |-> NoErr]

InFlight(r) == r.pc \notin {"idle", "done"}

\* "if applied[key] { continue }": the keys from the first one not applied.
RECURSIVE SkipApplied(_, _)
SkipApplied(keys, applied) ==
    IF keys = <<>> THEN <<>>
    ELSE IF IsApplied(applied, Head(keys)) THEN SkipApplied(Tail(keys), applied)
    ELSE keys

\* The run goes on with the keys left, or returns nil when none is left.
Continue(r, keys) ==
    [r EXCEPT !.keys = keys, !.pc = IF keys = <<>> THEN "done" ELSE "body"]

\* "return err".
Failed(r, step, key) == [r EXCEPT !.pc = "done", !.err = Err(step, key)]

\* A step of run p that leaves it as r.
Step(p, r) ==
    /\ procs' = [procs EXCEPT ![p] = r]
    /\ overlapped' = (overlapped \/ \E q \in Runs \ {p} : InFlight(procs[q]))
    /\ UNCHANGED <<db, driverIndex, registry, conns, openedWith, returned, nOpens,
                   firstSet, sameSet, nFaults, last, facadeVars>>

\* sql.Open and the CREATE TABLE IF NOT EXISTS _migrations.
MigrateCreate(p, iter, ok) ==
    /\ procs[p].pc = "idle"
    /\ IF ok
       THEN /\ database' = [database EXCEPT !.hasLedger = TRUE]
            /\ Step(p, [procs[p] EXCEPT !.pc = "load", !.keys = iter])
       ELSE /\ UNCHANGED database
            /\ Step(p, Failed(procs[p], "create", NoKey))

\* The SELECT name FROM _migrations, the applied map, sort.Strings(keys) and
\* the loop up to the first key that is not in the applied map.
MigrateLoad(p, ok) ==
    /\ procs[p].pc = "load"
    /\ UNCHANGED database
    /\ IF ok
       THEN Step(p, Continue([procs[p] EXCEPT !.applied = LoadApplied(database)],
                             SkipApplied(SortStrings(procs[p].keys), LoadApplied(database))))
       ELSE Step(p, Failed(procs[p], "load", NoKey))

\* sqlDB.Exec(migrations[key]).
MigrateBody(p, ok) ==
    /\ procs[p].pc = "body"
    /\ IF ok
       THEN /\ database' = [database EXCEPT !.effects[Head(procs[p].keys)] = @ + 1]
            /\ Step(p, [procs[p] EXCEPT !.pc = "insert"])
       ELSE /\ UNCHANGED database
            /\ Step(p, Failed(procs[p], "body", Head(procs[p].keys)))

\* The INSERT INTO _migrations (name) VALUES (?) and the loop up to the next
\* key that is not in the applied map.
MigrateInsert(p, ok) ==
    /\ procs[p].pc = "insert"
    /\ IF ok
       THEN /\ database' = [database EXCEPT !.ledger[Head(procs[p].keys)] = @ + 1]
            /\ Step(p, Continue(procs[p], SkipApplied(Tail(procs[p].keys), procs[p].applied)))
       ELSE /\ UNCHANGED database
            /\ Step(p, Failed(procs[p], "insert", Head(procs[p].keys)))

----------------------------------------------------------------------------
\* The initial states

InitFacade(calls) ==
    /\ call \in calls
    /\ issued = <<>>
    /\ cursor = "none"
    /\ target = call.prior
    /\ ret = Idle

InitRace ==
    /\ procs = [p \in Runs |-> IdleRun]
    /\ overlapped = FALSE

Init == InitDB /\ InitFacade({NoCall}) /\ InitRace

----------------------------------------------------------------------------
\* The migration engine: Open on writable handles with any migration set.
Next == OpenCall({FALSE}, SUBSET Names, Faults, MaxFaults)

Spec == Init /\ [][Next]_vars

\* The capability gate: Open in either mode with no migrations (Open(nil), as
\* the command line programs call it), connections, statements and Handler.
NextGate ==
    \/ OpenCall(BOOLEAN, {{}}, SetupFaults, MaxGateFaults)
    \/ \E h \in Handles : Connect(h)
    \/ \E h \in Handles, i \in 1..MaxConns, stmt \in Statements : Statement(h, i, stmt)
    \/ \E h \in Handles : Handler(h)

SpecGate == Init /\ [][NextGate]_vars

\* The facade: one call of Query, Exec, Insert or printQuery.
NextFacade == QueryCall \/ ExecCall \/ InsertCall \/ PrintQueryCall

InitFacadeCalls == InitDB /\ InitFacade(FacadeCalls) /\ InitRace

SpecFacade == InitFacadeCalls /\ [][NextFacade]_vars

\* The JSON value: a text column read by Query into a dynamic target, and a
\* JSON holding a text serialized.
NextJSON == QueryCall \/ MarshalJSONCall

InitJSONCalls == InitDB /\ InitFacade(JSONCalls) /\ InitRace

SpecJSON == InitJSONCalls /\ [][NextJSON]_vars

\* Two migrate runs on one database, their statements in any interleaving.
NextRace ==
    \/ \E p \in Runs, set \in SUBSET Names, ok \in BOOLEAN :
          \E iter \in Enumerations(set) : MigrateCreate(p, iter, ok)
    \/ \E p \in Runs, ok \in BOOLEAN : MigrateLoad(p, ok)
    \/ \E p \in Runs, ok \in BOOLEAN : MigrateBody(p, ok)
    \/ \E p \in Runs, ok \in BOOLEAN : MigrateInsert(p, ok)

SpecRace == Init /\ [][NextRace]_vars

----------------------------------------------------------------------------
\* Properties of the migration engine, checked under Spec.

AfterOpen == last.op = "Open"

\* The events of run i of the last Open call.
RunLog(i) == last.runs[i].log
RunIds == 1..Len(last.runs)

\* C1. Migration idempotence: while no engine step has failed and every Open
\* call so far has supplied the same migration set, each supplied migration's
\* body has taken effect exactly once and the ledger holds exactly one row for
\* it, and nothing else has been executed or recorded.
MigrationIdempotence ==
    (AfterOpen /\ nFaults = 0 /\ sameSet) =>
        \A n \in Names :
            /\ database.effects[n] = (IF n \in last.migrations THEN 1 ELSE 0)
            /\ database.ledger[n] = (IF n \in last.migrations THEN 1 ELSE 0)

\* Two Open calls with the whole migration set and no failure, the second one
\* on a fresh handle, so that the engine has run four times.
MigrationIdempotenceWitness ==
    /\ AfterOpen /\ nOpens = 2 /\ nFaults = 0 /\ sameSet
    /\ last.migrations = Names
    /\ Len(last.runs) = 2
    /\ \A n \in Names : database.ledger[n] = 1

\* C2. Per-migration atomicity: after any Open call (at the end of its migrate
\* runs, failed or not) a migration's body has taken effect iff its name is in
\* the ledger.
PerMigrationAtomicity ==
    AfterOpen =>
        \A n \in Names : (database.effects[n] > 0) <=> (database.ledger[n] > 0)

\* C3. Halt on first failure: if during an Open call a migration's body or its
\* ledger insert fails, Open returns that error, and no body of a migration
\* sorting after the failed one is executed later in that call.
HaltOnFirstFailure ==
    AfterOpen =>
        \A i \in RunIds : \A j \in 1..Len(RunLog(i)) :
            ~RunLog(i)[j].ok =>
                /\ last.err = Err(RunLog(i)[j].step, RunLog(i)[j].key)
                /\ \A i2 \in RunIds : \A j2 \in 1..Len(RunLog(i2)) :
                      (i2 > i \/ (i2 = i /\ j2 > j)) =>
                          ~(/\ RunLog(i2)[j2].step = "body"
                            /\ Less(RunLog(i)[j].key, RunLog(i2)[j2].key))

\* C4. Migration ordering: in every migrate run, only pending migrations are
\* executed, and when the body of b is executed every pending a < b has had
\* its body executed and then its ledger row inserted.
MigrationOrdering ==
    AfterOpen =>
        \A i \in RunIds : \A j \in 1..Len(RunLog(i)) :
            RunLog(i)[j].step = "body" =>
                /\ RunLog(i)[j].key \in last.runs[i].pending
                /\ \A a \in last.runs[i].pending :
                      Less(a, RunLog(i)[j].key) =>
                          \E j1 \in 1..Len(RunLog(i)), j2 \in 1..Len(RunLog(i)) :
                              /\ j1 < j2 /\ j2 < j
                              /\ RunLog(i)[j1] = Ev("body", a, TRUE)
                              /\ RunLog(i)[j2] = Ev("insert", a, TRUE)

\* A run that was handed the keys out of order and executed both migrations.
MigrationOrderingWitness ==
    /\ AfterOpen
    /\ \E i \in RunIds :
         /\ last.runs[i].shuffled
         /\ Len(RunLog(i)) = 4
         /\ RunLog(i)[1] = Ev("body", <<1, 0>>, TRUE)
         /\ RunLog(i)[3] = Ev("body", <<2>>, TRUE)

\* C5. Fully migrated on success: when Open returns no error, every supplied
\* migration is recorded in the ledger.
FullyMigratedOnSuccess ==
    (AfterOpen /\ last.err = NoErr) =>
        \A n \in last.migrations : database.ledger[n] > 0

\* A successful Open of the whole set whose first run failed: the second run
\* completed the migration.
FullyMigratedOnSuccessWitness ==
    /\ AfterOpen /\ last.err = NoErr /\ last.migrations = Names
    /\ last.runs[1].err # NoErr
    /\ \A n \in Names : database.ledger[n] > 0

\* The events of an Open call's runs, in the order they happened.
RECURSIVE Events(_)
Events(runs) == IF runs = <<>> THEN <<>> ELSE Head(runs).log \o Events(Tail(runs))

\* C6. Resume after failure: when Open is called again with the same
\* migrations on a handle whose previous Open, the last operation, failed at a
\* migration, it is not rejected as already open, it executes no body of a
\* migration the ledger recorded, and the first body it executes, if any, is
\* the one of the migration that failed.
ResumeAfterFailure ==
    [][ ( /\ last.op = "Open" /\ last.err.kind \in {"body", "insert"}
          /\ last'.op = "Open" /\ nOpens' = nOpens + 1
          /\ last'.h = last.h /\ last'.migrations = last.migrations )
        => /\ last'.err # AlreadyOpenErr
           /\ \A j \in 1..Len(Events(last'.runs)) :
                 Events(last'.runs)[j].step = "body" =>
                    /\ database.ledger[Events(last'.runs)[j].key] = 0
                    /\ (\A j0 \in 1..(j - 1) : Events(last'.runs)[j0].step # "body")
                          => Events(last'.runs)[j].key = last.err.key
      ]_vars

\* The second Open on a handle whose first Open failed at the body of "2",
\* after "10" was recorded: it executes "2" first, and "10" not again.
ResumeAfterFailureWitness ==
    /\ AfterOpen /\ nOpens = 2
    /\ last.before = Err("body", <<2>>)
    /\ last.err = NoErr
    /\ RunLog(1) # <<>> /\ RunLog(1)[1] = Ev("body", <<2>>, TRUE)
    /\ database.effects[<<1, 0>>] = 1

----------------------------------------------------------------------------
\* Properties of the capability gate, checked under SpecGate.

\* C7. Single-open invariant: Open on a handle whose DB is set returns the
\* already-open error, and the handle keeps its pool and connections: no
\* driver is registered and no connection is opened for it.
SingleOpen ==
    [][ (last'.op = "Open" /\ nOpens' = nOpens + 1 /\ db[last'.h].DB # NilDB)
        => /\ last'.err = AlreadyOpenErr
           /\ db'[last'.h].DB = db[last'.h].DB
           /\ driverIndex' = driverIndex
           /\ registry' = registry
           /\ conns' = conns
      ]_vars

\* An Open rejected on a handle that holds a pool with a connection.
SingleOpenWitness ==
    /\ AfterOpen /\ last.err = AlreadyOpenErr
    /\ db[last.h].DB # NilDB
    /\ Len(conns[last.h]) > 0

ReadClasses == {"SQLITE_SELECT", "SQLITE_READ", "SQLITE_FUNCTION"}

OnReadOnlyConn == last.op = "Statement" /\ last.authorizer

InAllowList(a) ==
    \/ a.arg1 \in {"table_info", "data_version"}
    \/ a.arg1 = "user_version" /\ a.arg2 = ""

\* C9. Pragma allow-list: the read-only authorizer allows a PRAGMA action
\* exactly when it is table info, data-version, or user-version without an
\* argument.
PragmaAllowList ==
    OnReadOnlyConn =>
        \A j \in 1..Len(last.actions) :
            last.actions[j].op = "SQLITE_PRAGMA" =>
                (last.verdicts[j] = "SQLITE_OK" <=> InAllowList(last.actions[j]))

\* C10. Handler capability gate: Handler returns a request handler only for a
\* handle whose pool was opened by an Open call with readOnly = true.
HandlerCapabilityGate ==
    (last.op = "Handler" /\ last.result = "handler") =>
        openedWith[last.h] = "readOnly"

----------------------------------------------------------------------------
\* The facade

Returned(op) == call.op = op /\ ret.returned

\* C11: a Query whose result argument is not a pointer to a slice (nil, a bare
\* record, a slice that is not pointed to, a pointer to a record) returns an
\* error, has handed no statement to the engine and obtained no cursor, and
\* leaves what the argument holds as it was.
FailFastShapeCheck ==
    (/\ Returned("Query")
     /\ (Len(call.type) < 2 \/ call.type[1] # "ptr" \/ call.type[2] # "slice"))
    => /\ ~ret.err.nil
       /\ ~ret.panicked
       /\ issued = <<>>
       /\ cursor = "none"
       /\ target = call.prior

\* A slice with an element, passed without a pointer, for a statement that
\* would have yielded rows: rejected.
FailFastShapeCheckWitness ==
    /\ Returned("Query")
    /\ call.type = <<"slice", "struct">>
    /\ call.prior # <<>>
    /\ ~call.reject
    /\ call.rs.rows # <<>>
    /\ ~ret.err.nil
    /\ issued = <<>>

\* C12: when Query or printQuery has returned, on whatever path, the cursor
\* it obtained from the engine is not left open.
CursorRelease ==
    (Returned("Query") \/ Returned("printQuery")) => cursor # "open"

\* The words of text occur, in a row, in msg.
Contains(msg, text) ==
    \E i \in 0..(Len(msg) - Len(text)) : SubSeq(msg, i + 1, i + Len(text)) = text

\* C13: when the engine rejects the statement that Query, Exec or Insert
\* handed to it, the error the call returns contains the text of that statement.
EngineErrorsCarrySQL ==
    (/\ Returned("Query") \/ Returned("Exec") \/ Returned("Insert")
     /\ call.reject
     /\ issued # <<>>)
    => /\ ~ret.err.nil
       /\ Contains(ret.err.msg, issued[1])

\* C14: Insert takes a record and a mapping alike and hands one INSERT to the
\* engine for it; it returns the type error, with no statement handed over
\* and no panic, exactly when the value is neither a record nor a mapping.
InsertInputKinds ==
    Returned("Insert")
    => IF Kind(call.v.t) \in {"struct", "map"}
       THEN ~ret.panicked /\ ret.err # TypeError /\ Len(issued) = 1
       ELSE ~ret.panicked /\ ret.err = TypeError /\ issued = <<>>

----------------------------------------------------------------------------
\* The capability gate, continued

\* C15: every engine connection of a handle whose successful Open was given
\* readOnly = true carries the authorizer, whatever was called on the handle
\* between that Open and the connection being made.
ReadOnlyIsPermanent ==
    \A h \in Handles :
       openedWith[h] = "readOnly"
       => \A i \in 1..Len(conns[h]) : conns[h][i].authorizer

----------------------------------------------------------------------------
\* The materializer

Columns == call.rs.columns
Rows == call.rs.rows
ElemType == Elem(Elem(call.type))
NewElems == SubSeq(target, Len(call.prior) + 1, Len(target))

HasColumn(name) == \E i \in 1..Len(Columns) : Columns[i] = name
LastColumn(name) ==
    CHOOSE i \in 1..Len(Columns) :
       Columns[i] = name /\ \A j \in (i + 1)..Len(Columns) : Columns[j] # name

KeySet(m) == {m.ks[i] : i \in 1..Len(m.ks)}
ValueAt(m, name) == m.xs[CHOOSE i \in 1..Len(m.ks) : m.ks[i] = name]

\* What a destination of type t, zero before, holds for a cell of the engine:
\* an interface{} the cell (an integer as a float64), a string the text.
Delivered(cell, t) ==
    IF Kind(t) = "interface"
    THEN IF cell.k = "int64" THEN [cell EXCEPT !.k = "float64"] ELSE cell
    ELSE IF cell.k = "nil" THEN (IF Kind(t) = "string" THEN Str(<<>>) ELSE Val("int", <<"0">>, <<>>, <<>>))
    ELSE IF Kind(t) = "int" THEN [cell EXCEPT !.k = "int"]
    ELSE cell

MappingShape == Kind(ElemType) \in {"map", "interface"}
MapElemType == IF Kind(ElemType) = "map" THEN Elem(ElemType) ELSE <<"interface">>

\* The mapping m holds, under the name of every column and under nothing
\* else, what the last column of that name holds in the row (a NULL read
\* into a typed value is left to the row-independence property).
MapOfRow(m, row) ==
    /\ m.k = "map"
    /\ KeySet(m) = {Columns[i] : i \in 1..Len(Columns)}
    /\ Len(m.ks) = Cardinality(KeySet(m))
    /\ \A name \in KeySet(m) :
          LET cell == row[LastColumn(name)] IN
          (cell.k = "nil" /\ Kind(MapElemType) # "interface")
          \/ ValueAt(m, name) = Delivered(cell, MapElemType)

\* C16: every mapping that Query appends for a result with columns C has
\* exactly the names in C as its keys, and holds under a name that occurs
\* more than once the value of the last column with that name.
MappingCompleteness ==
    (Returned("Query") /\ ShapeOK(call.type) /\ MappingShape)
    => \A r \in 1..Len(NewElems) : MapOfRow(NewElems[r], Rows[r])

\* Two columns named a with different values in the second of two rows.
MappingCompletenessWitness ==
    /\ Returned("Query")
    /\ call.type = <<"ptr", "slice", "map", "interface">>
    /\ Columns = <<<<"a">>, <<"a">>>>
    /\ Len(Rows) = 2
    /\ Rows[2][1] # Rows[2][2]
    /\ Len(NewElems) = 2
    /\ NewElems[2].ks = <<<<"a">>>>
    /\ NewElems[2].xs = <<Delivered(Rows[2][2], <<"interface">>)>>

\* The record x holds in every field that is the name of a column what the
\* last column of that name holds in the row (a NULL read into a typed field
\* is left out, as for the mapping), and the zero value in every other field.
RecordOfRow(x, row) ==
    /\ x.k = "struct"
    /\ x.ks = FieldNames
    /\ \A f \in 1..Len(FieldNames) :
          IF HasColumn(FieldNames[f])
          THEN LET cell == row[LastColumn(FieldNames[f])] IN
               (cell.k = "nil" /\ Kind(FieldType(FieldNames[f])) # "interface")
               \/ x.xs[f] = Delivered(cell, FieldType(FieldNames[f]))
          ELSE x.xs[f] = Zero(FieldType(FieldNames[f]))

\* The element x is the image of the row in the shape of the target.
ElementOfRow(x, row) ==
    CASE Kind(ElemType) = "struct" -> RecordOfRow(x, row)
      [] Kind(ElemType) = "ptr" -> x.k = "ptr" /\ RecordOfRow(x.xs[1], row)
      [] MappingShape -> MapOfRow(x, row)
      [] OTHER -> x = Delivered(row[1], ElemType)

\* C17: after a Query that returned no error the target holds what it held
\* before, unchanged and in place, followed by one element for every row of
\* the result, the element of the i-th row in the i-th place.
AppendOnlyRowOrder ==
    (Returned("Query") /\ ret.err.nil)
    => /\ Len(target) = Len(call.prior) + Len(Rows)
       /\ SubSeq(target, 1, Len(call.prior)) = call.prior
       /\ \A r \in 1..Len(Rows) : ElementOfRow(NewElems[r], Rows[r])

\* Records appended for two different rows behind an element held before.
AppendOnlyRowOrderWitness ==
    /\ Returned("Query") /\ ret.err.nil
    /\ call.type = <<"ptr", "slice", "struct">>
    /\ call.prior # <<>>
    /\ HasColumn(<<"b">>)
    /\ Len(Rows) = 2 /\ Rows[1] # Rows[2]
    /\ Len(target) = 3
    /\ target[1] = call.prior[1]
    /\ target[2] # target[3]

----------------------------------------------------------------------------
\* Text that holds JSON

\* The text of the one cell a JSON call reads or serializes.
TextOf == IF call.op = "MarshalJSON" THEN call.v.xs[1].s ELSE Rows[1][1].s

LooksLikeJSON(s) == isJSONObjectString(s) \/ isJSONArrayString(s)

\* A complete document, and a text that only has the brackets of one.
Document(s) == LooksLikeJSON(s) /\ Valid(s)
Ambiguous(s) == LooksLikeJSON(s) /\ ~Valid(s)

InterfaceSlot == Kind(ElemType) = "struct" \/ Kind(MapElemType) = "interface"

\* What the interface-valued slot of the element x holds for column b: the
\* field b of a record, the value under b of a map, the Value of a JSON.
DynamicSlot(x) ==
    CASE Kind(ElemType) = "struct" -> x.xs[2]
      [] Kind(MapElemType) = "JSON" -> ValueAt(x, <<"b">>).xs[1]
      [] OTHER -> ValueAt(x, <<"b">>)

\* C18: a Query that reads a text column holding a complete JSON object or
\* array into an interface-valued slot returns no error and leaves the
\* parsed value in the slot, not the string.
NestedJSONUnwrap ==
    (Returned("Query") /\ InterfaceSlot /\ Document(TextOf))
    => /\ ret.err.nil
       /\ Len(target) = 1
       /\ DynamicSlot(target[1]) = ParseValue(TextOf).v
       /\ DynamicSlot(target[1]) # Str(TextOf)

\* C19: a text that has the brackets of a JSON object or array and is not a
\* complete document never makes a Query or a MarshalJSON fail: the Query
\* leaves the text itself in the dynamic slot, MarshalJSON returns the text
\* as a JSON string.
AmbiguousStringsPassThrough ==
    /\ (Returned("Query") /\ Ambiguous(TextOf))
       => /\ ret.err.nil /\ ~ret.panicked
          /\ Len(target) = 1
          /\ DynamicSlot(target[1]) = Str(TextOf)
    /\ (Returned("MarshalJSON") /\ Ambiguous(TextOf))
       => /\ ret.err.nil /\ ~ret.panicked
          /\ ret.out = Quote(TextOf)

\* {k:1} read into the value of a map[string]interface{}.
AmbiguousStringsPassThroughWitness ==
    /\ Returned("Query")
    /\ call.type = <<"ptr", "slice", "map", "interface">>
    /\ TextOf = <<"{", "k", ":", "1", "}">>
    /\ Ambiguous(TextOf)
    /\ ret.err.nil
    /\ target = <<Obj(<<<<"b">>>>, <<Str(TextOf)>>)>>

----------------------------------------------------------------------------
\* Concurrent migrate runs

\* The body of migration n has run twice and the ledger holds two rows for it.
AppliedTwice(n) == database.effects[n] > 1 /\ database.ledger[n] > 1

\* C20: when no statement of one migrate run is executed while the other run
\* is in flight, no migration is applied twice; a migration is applied twice
\* only by runs that interleave.
SerializedRunsApplyOnce ==
    (\E n \in Names : AppliedTwice(n)) => overlapped

\* Both runs loaded an applied set without the migration, both returned nil,
\* and the migration is applied twice.
SerializedRunsApplyOnceWitness ==
    /\ overlapped
    /\ \A p \in Runs : procs[p].pc = "done" /\ procs[p].err = NoErr
    /\ \E n \in Names :
          /\ AppliedTwice(n)
          /\ \A p \in Runs : n \notin procs[p].applied

----------------------------------------------------------------------------
\* The frame of a rejected Open

\* The step is a call of Open that returned the already-open error.
RejectedOpen == nOpens' = nOpens + 1 /\ last'.op = "Open" /\ last'.err = AlreadyOpenErr

\* C21: a call of Open that returns the already-open error changes nothing:
\* the read-only mode and the connection pool of every handle are what they
\* were before the call, and the database has no body executed and no ledger
\* row inserted that it did not have before.
RejectedOpenChangesNothing ==
    [][RejectedOpen => /\ db' = db
                       /\ database'.effects = database.effects
                       /\ database'.ledger = database.ledger]_vars

----------------------------------------------------------------------------
\* Rows of a mapping-shaped result

\* The mapping m holds under every column name what the row alone gives: the
\* value of the last column of that name, and for NULL the zero value of the
\* mapping's value type.
MapOfRowAlone(m, row) ==
    /\ m.k = "map"
    /\ \A name \in KeySet(m) :
          ValueAt(m, name) = Delivered(row[LastColumn(name)], MapElemType)

\* C22: every mapping that a successful Query appends is determined by its
\* own row: a column that is NULL in the row is in the mapping with the zero
\* value of the mapping's value type, never with the value that the column
\* had in an earlier row.
RowIndependence ==
    (Returned("Query") /\ ret.err.nil /\ ShapeOK(call.type) /\ MappingShape)
    => \A r \in 1..Len(NewElems) : MapOfRowAlone(NewElems[r], Rows[r])

====
